---- MODULE Spec2Model ----
(***************************************************************************)
(* Model of app.py: DataHandler (CSV loader with a preview slice),         *)
(* Predictor (pickled model loader with one inference call) and            *)
(* GoldPriceApp (construction with halt-on-error, and the run() page with  *)
(* its Predict button).                                                    *)
(*                                                                         *)
(* Prices are held in hundredths (the input controls step by 0.01), a      *)
(* prediction in thousandths, so that formatting to two decimals rounds.   *)
(***************************************************************************)
EXTENDS Integers, Sequences, FiniteSets, TLC

\* ---------------------------------------------------------------- bounds
MaxRows == 5      \* data lines of the CSV file: 0..MaxRows
MaxPrice == 2     \* values of the three input controls: 0..MaxPrice (hundredths)
MaxN == 6         \* get_head is called with n in -MaxN..MaxN

\* ------------------------------------------------------ program constants
PreviewRows == 4
DefaultRequired == {"Open", "High", "Low"}
DefaultDataPath == "Gold_Price.csv"
DefaultModelPath == "svm_model.pkl"
InputColumns == <<"Open", "High", "Low">>

None == [none |-> TRUE]

Min(a, b) == IF a <= b THEN a ELSE b
Max(a, b) == IF a >= b THEN a ELSE b

\* --------------------------------------------------------- exceptions
\* The exception classes the code raises or meets, with Python's subclass
\* relation between them (an except clause matches a class and its subclasses).
Parent(t) ==
    CASE t = "FileNotFoundError" -> "OSError"
      [] t = "OSError" -> "Exception"
      [] t = "EmptyDataError" -> "ValueError"
      [] t = "ValueError" -> "Exception"
      [] t = "UnpicklingError" -> "PickleError"
      [] t = "PickleError" -> "Exception"
      [] t = "EOFError" -> "Exception"
      [] t = "AttributeError" -> "Exception"
      [] t = "LookupError" -> "Exception"
      [] t = "KeyError" -> "LookupError"
      [] OTHER -> "BaseException"

RECURSIVE IsA(_, _)
IsA(t, c) ==
    IF t = c THEN TRUE
    ELSE IF t = "BaseException" THEN FALSE
    ELSE IsA(Parent(t), c)

Exc(t, m) == [type |-> t, msg |-> m]

\* A call either returns a value or raises.
Ok(v) == [ok |-> TRUE, val |-> v]
Raise(e) == [ok |-> FALSE, exc |-> e]

\* ------------------------------------------------------------- the files
AllColumns == {"Date", "Open", "High", "Low"}

\* The header lines a CSV file may have; {} is the empty file.
HeaderChoices ==
    { {}, AllColumns, DefaultRequired, {"Date", "Open", "High"}, {"Date"} }

RequiredChoices == { DefaultRequired, {"Open", "Low"} }

\* The cell of data line i under column c: every line of the file is different.
ColIndex(c) ==
    CASE c = "Date" -> 0 [] c = "Open" -> 1 [] c = "High" -> 2 [] c = "Low" -> 3

Cell(s, c) == 10 * s + ColIndex(c)

\* The file at the data path: absent, empty, or a header line and data lines.
CsvFiles ==
    { [exists |-> FALSE, columns |-> {}, lines |-> 0] }
    \cup { [exists |-> TRUE, columns |-> h, lines |-> k] :
             h \in HeaderChoices \ {{}}, k \in 0..MaxRows }
    \cup { [exists |-> TRUE, columns |-> {}, lines |-> 0] }

\* What the bytes of the model file hold: a pickled object of some kind, or
\* bytes pickle cannot turn into an object.
PickledObjects == {"svr_mean", "picky", "raising", "classifier", "no_predict"}
BrokenPickles == {"garbage", "truncated", "incompatible"}

ModelFiles ==
    { [exists |-> FALSE, content |-> "none"] }
    \cup { [exists |-> TRUE, content |-> c] : c \in PickledObjects \cup BrokenPickles }


VARIABLES
    dataFile,          \* the file at data_path
    modelFile,         \* the file at model_path
    argRequired,       \* the required_columns argument of GoldPriceApp(...)
    appState,          \* "Initializing", "Ready", "Halted" or "Crashed"
    data_handler,      \* GoldPriceApp.data_handler: None or a DataHandler
    predictor,         \* GoldPriceApp.predictor: None or a Predictor
    required_columns,  \* GoldPriceApp.required_columns: None or a set
    escaped,           \* the exception that left __init__ uncaught, or None
    raised,            \* the exception construction failed with, or None
    loads,             \* number of pickle.load calls made
    table,             \* the preview table on the page, or None
    output,            \* the messages below the Predict button, in order
    inputs,            \* the three input controls at the last script pass
    lastInfer,         \* the frame given to Predictor.predict by the last pass, or None
    headCall,          \* the last direct get_head call: None or [n, result]
    clicked,           \* whether the Predict button was pressed in the last pass
    prior,             \* history: what the output area showed before the last pass
    repeat             \* history: the last two passes were presses with the same inputs

vars == <<dataFile, modelFile, argRequired, appState, data_handler, predictor,
          required_columns, escaped, raised, loads, table, output, inputs,
          lastInfer, headCall, clicked, prior, repeat>>

\* ------------------------------------------------------------ DataHandler
\* pd.read_csv: a frame of the file's columns, rows indexed 0, 1, ... in file
\* order; a file without a header line raises EmptyDataError.
ReadCsv(file) ==
    IF file.columns = {}
    THEN Raise(Exc("EmptyDataError", "No columns to parse from file"))
    ELSE Ok([columns |-> file.columns,
             rows |-> [i \in 1..file.lines |->
                         [index |-> i - 1,
                          cells |-> [c \in file.columns |-> Cell(i, c)]]]])

\* Mutant: the columns are not checked on loading; a missing one surfaces as
\* the KeyError of indexing the frame with it.
_load_data_unchecked(file, required) ==
    IF ~file.exists
    THEN Raise(Exc("FileNotFoundError", "File not found"))
    ELSE LET r == ReadCsv(file) IN
         IF ~r.ok THEN r
         ELSE IF ~(required \subseteq r.val.columns)
         THEN Raise(Exc("KeyError", "not in index"))
         ELSE r

_load_data(file, required) ==
    IF ~file.exists
    THEN Raise(Exc("FileNotFoundError", "File not found"))
    ELSE LET r == ReadCsv(file) IN
         IF ~r.ok THEN r
         ELSE IF ~(required \subseteq r.val.columns)
         THEN Raise(Exc("ValueError", "CSV file must contain these columns"))
         ELSE r

DataHandlerInit(path, required, file) ==
    LET r == _load_data(file, required) IN
    IF ~r.ok THEN r
    ELSE Ok([file_path |-> path, required_columns |-> required, df |-> r.val])

\* df[list(columns)]: the same rows, each cut down to the given columns.
SelectColumns(df, columns) ==
    [columns |-> columns,
     rows |-> [i \in 1..Len(df.rows) |->
                 [index |-> df.rows[i].index,
                  cells |-> [c \in columns |-> df.rows[i].cells[c]]]]]

\* Mutant: tail(n) in place of head(n).
tail(df, n) ==
    LET len == Len(df.rows)
        k == IF n >= 0 THEN Min(n, len) ELSE Max(len + n, 0)
    IN [columns |-> df.columns, rows |-> SubSeq(df.rows, len - k + 1, len)]

\* DataFrame.head(n) is iloc[:n]: the first n rows, and for a negative n all
\* rows but the last -n.
head(df, n) ==
    LET len == Len(df.rows)
        k == IF n >= 0 THEN Min(n, len) ELSE Max(len + n, 0)
    IN [columns |-> df.columns, rows |-> SubSeq(df.rows, 1, k)]

get_head(dh, n) == head(SelectColumns(dh.df, dh.required_columns), n)

\* -------------------------------------------------------------- Predictor
\* pickle.load on the file's bytes.
PickleLoad(content) ==
    CASE content = "garbage" -> Raise(Exc("UnpicklingError", "invalid load key"))
      [] content = "truncated" -> Raise(Exc("EOFError", "Ran out of input"))
      [] content = "incompatible" -> Raise(Exc("AttributeError", "Can't get attribute"))
      [] OTHER -> Ok(content)

_load_model(file) ==
    IF ~file.exists
    THEN Raise(Exc("FileNotFoundError", "Model file not found"))
    ELSE LET r == PickleLoad(file.content) IN
         IF ~r.ok /\ IsA(r.exc.type, "PickleError")
         THEN Raise(Exc("PickleError", "Failed to load model"))
         ELSE r

PredictorInit(path, file) ==
    LET r == _load_model(file) IN
    IF ~r.ok THEN r
    ELSE Ok([model_path |-> path, model |-> r.val])

Number(milli) == [numeric |-> TRUE, milli |-> milli]
Label == [numeric |-> FALSE, milli |-> 0]

\* self.model.predict(input_data)[0] for the objects a model file may hold; the
\* frame holds one row of hundredths, a numeric prediction is in thousandths.
predict(model, frame) ==
    LET o == frame.row[1]
        h == frame.row[2]
        l == frame.row[3]
    IN CASE model = "svr_mean" -> Ok(Number(((o + h + l) * 10) \div 3))
         [] model = "picky" ->
              IF l > h THEN Raise(Exc("ValueError", "Input contains inconsistent prices"))
              ELSE Ok(Number(o * 10 + 7))
         [] model = "raising" -> Raise(Exc("ValueError", "X has 3 features, but SVR is expecting 4"))
         [] model = "classifier" -> Ok(Label)
         [] model = "no_predict" -> Raise(Exc("AttributeError", "object has no attribute predict"))

\* f'{prediction:.2f}': hundredths, rounded half to even; a value that is no
\* number has no 'f' format.
Format2f(v) ==
    IF ~v.numeric THEN Raise(Exc("ValueError", "Unknown format code 'f'"))
    ELSE LET q == v.milli \div 10
             r == v.milli % 10
         IN Ok(IF r < 5 THEN q ELSE IF r > 5 THEN q + 1 ELSE q + (q % 2))


\* ----------------------------------------------------------- GoldPriceApp
Msg(kind, text, val) == [kind |-> kind, text |-> text, val |-> val]

\* st.error(str(e))
ErrorMsg(text) == Msg("error", text, 0)

\* The except clause of __init__.
InitCatches(e) ==
    \/ IsA(e.type, "FileNotFoundError")
    \/ IsA(e.type, "ValueError")
    \/ IsA(e.type, "PickleError")

\* Mutant: the clause names ValueError alone.
PredictCatchesValueError(e) == IsA(e.type, "ValueError")

\* The except clause around the prediction in run().
PredictCatches(e) == IsA(e.type, "Exception")

\* Mutant: the check lets a zero through.
RejectedBelowZero(open_price, high_price, low_price) ==
    open_price < 0 \/ high_price < 0 \/ low_price < 0

\* The check run() makes on the three inputs before building the frame.
Rejected(open_price, high_price, low_price) ==
    open_price <= 0 \/ high_price <= 0 \/ low_price <= 0

\* pd.DataFrame([[open, high, low]], columns=['Open', 'High', 'Low'])
InputFrame(open_price, high_price, low_price) ==
    [columns |-> InputColumns, row |-> <<open_price, high_price, low_price>>]

\* Mutant: the validation branch has no else, so the prediction follows the
\* validation message.
OnPredictNoElse(pr, open_price, high_price, low_price) ==
    LET input_df == InputFrame(open_price, high_price, low_price)
        p == predict(pr.model, input_df)
        f == IF p.ok THEN Format2f(p.val) ELSE p
        first == IF Rejected(open_price, high_price, low_price)
                 THEN <<ErrorMsg("All prices must be positive values.")>>
                 ELSE <<>>
    IN IF f.ok
       THEN [out |-> first \o <<Msg("write", "The predicted closing price is: ", f.val)>>,
             infer |-> input_df, uncaught |-> None]
       ELSE [out |-> first \o <<Msg("error", "Prediction failed: ", f.exc)>>,
             infer |-> input_df, uncaught |-> None]

\* The body of `if st.button('Predict'):` in run(): the messages it puts on
\* the page, the frame it hands to Predictor.predict (or None), and the
\* exception it lets through (or None).
OnPredict(pr, open_price, high_price, low_price) ==
    IF Rejected(open_price, high_price, low_price)
    THEN [out |-> <<ErrorMsg("All prices must be positive values.")>>,
          infer |-> None, uncaught |-> None]
    ELSE LET input_df == InputFrame(open_price, high_price, low_price)
             p == predict(pr.model, input_df)
             f == IF p.ok THEN Format2f(p.val) ELSE p
         IN IF f.ok
            THEN [out |-> <<Msg("write", "The predicted closing price is: ", f.val)>>,
                  infer |-> input_df, uncaught |-> None]
            ELSE IF PredictCatches(f.exc)
            THEN [out |-> <<Msg("error", "Prediction failed: ", f.exc)>>,
                  infer |-> input_df, uncaught |-> None]
            ELSE [out |-> <<>>, infer |-> input_df, uncaught |-> f.exc]

Init ==
    /\ dataFile \in CsvFiles
    /\ modelFile \in ModelFiles
    /\ argRequired \in RequiredChoices
    /\ appState = "Initializing"
    /\ data_handler = None
    /\ predictor = None
    /\ required_columns = None
    /\ escaped = None
    /\ raised = None
    /\ loads = 0
    /\ table = None
    /\ output = <<>>
    /\ inputs = None
    /\ lastInfer = None
    /\ headCall = None
    /\ clicked = FALSE
    /\ prior = "none"
    /\ repeat = FALSE

\* GoldPriceApp.__init__ ending in an exception e: the except clause shows the
\* message and stops the script, or e is not one it names and leaves __init__.
InitFails(e) ==
    /\ raised' = e
    /\ IF InitCatches(e)
       THEN /\ output' = <<ErrorMsg(e.msg)>>
            /\ appState' = "Halted"
            /\ escaped' = None
       ELSE /\ output' = output
            /\ appState' = "Crashed"
            /\ escaped' = e

\* GoldPriceApp() with the DataHandler failing.
ConstructDataFails ==
    /\ appState = "Initializing"
    /\ LET dh == DataHandlerInit(DefaultDataPath, argRequired, dataFile) IN
       /\ ~dh.ok
       /\ InitFails(dh.exc)
    /\ UNCHANGED <<dataFile, modelFile, argRequired, data_handler, predictor,
                   required_columns, loads, table, inputs, lastInfer, headCall,
                   clicked, prior, repeat>>

\* GoldPriceApp() with the DataHandler built and the Predictor failing.
ConstructModelFails ==
    /\ appState = "Initializing"
    /\ LET dh == DataHandlerInit(DefaultDataPath, argRequired, dataFile)
           pr == PredictorInit(DefaultModelPath, modelFile)
       IN /\ dh.ok
          /\ ~pr.ok
          /\ data_handler' = dh.val
          /\ loads' = IF modelFile.exists THEN loads + 1 ELSE loads
          /\ InitFails(pr.exc)
    /\ UNCHANGED <<dataFile, modelFile, argRequired, predictor,
                   required_columns, table, inputs, lastInfer, headCall,
                   clicked, prior, repeat>>

\* GoldPriceApp() succeeding.
ConstructOk ==
    /\ appState = "Initializing"
    /\ LET dh == DataHandlerInit(DefaultDataPath, argRequired, dataFile)
           pr == PredictorInit(DefaultModelPath, modelFile)
       IN /\ dh.ok
          /\ pr.ok
          /\ data_handler' = dh.val
          /\ predictor' = pr.val
          /\ required_columns' = argRequired
          /\ loads' = loads + 1
    /\ appState' = "Ready"
    /\ UNCHANGED <<dataFile, modelFile, argRequired, escaped, raised, table,
                   output, inputs, lastInfer, headCall, clicked, prior, repeat>>

\* The kind of the message an output area shows.
Shown(out) == IF out = <<>> THEN "none" ELSE out[Len(out)].kind

\* Mutant: get_head cuts the handler's own frame down (self.df = ...) before
\* returning it.
RunRenderInPlace(open_price, high_price, low_price) ==
    /\ appState = "Ready"
    /\ table' = get_head(data_handler, PreviewRows)
    /\ data_handler' = [data_handler EXCEPT !.df = get_head(data_handler, PreviewRows)]
    /\ inputs' = <<open_price, high_price, low_price>>
    /\ output' = <<>>
    /\ lastInfer' = None
    /\ clicked' = FALSE
    /\ prior' = Shown(output)
    /\ repeat' = FALSE
    /\ UNCHANGED <<dataFile, modelFile, argRequired, appState,
                   predictor, required_columns, escaped, raised, loads, headCall>>

\* A pass of run() in which the Predict button is not pressed (the first
\* pass, or one after an input control changed): the page is drawn anew, with
\* the preview table and nothing below the button.
RunRender(open_price, high_price, low_price) ==
    /\ appState = "Ready"
    /\ table' = get_head(data_handler, PreviewRows)
    /\ inputs' = <<open_price, high_price, low_price>>
    /\ output' = <<>>
    /\ lastInfer' = None
    /\ clicked' = FALSE
    /\ prior' = Shown(output)
    /\ repeat' = FALSE
    /\ UNCHANGED <<dataFile, modelFile, argRequired, appState, data_handler,
                   predictor, required_columns, escaped, raised, loads, headCall>>

\* Mutant: the page keeps a running total, each result added to the one shown.
RunPredictAccumulating(open_price, high_price, low_price) ==
    /\ appState = "Ready"
    /\ table # None
    /\ LET r == OnPredict(predictor, open_price, high_price, low_price)
           shown == IF Shown(output) = "write" THEN output[1].val ELSE 0
       IN /\ output' = IF Shown(r.out) = "write"
                        THEN <<Msg("write", r.out[1].text, r.out[1].val + shown)>>
                        ELSE r.out
          /\ lastInfer' = r.infer
          /\ escaped' = r.uncaught
          /\ appState' = IF r.uncaught = None THEN "Ready" ELSE "Crashed"
    /\ table' = get_head(data_handler, PreviewRows)
    /\ inputs' = <<open_price, high_price, low_price>>
    /\ clicked' = TRUE
    /\ prior' = Shown(output)
    /\ repeat' = (clicked /\ inputs = <<open_price, high_price, low_price>>)
    /\ UNCHANGED <<dataFile, modelFile, argRequired, data_handler, predictor,
                   required_columns, raised, loads, headCall>>

\* A pass of run() in which the Predict button is pressed, the controls
\* holding the three values: the page is drawn anew and the button's body runs.
RunPredict(open_price, high_price, low_price) ==
    /\ appState = "Ready"
    /\ table # None
    /\ LET r == OnPredict(predictor, open_price, high_price, low_price) IN
       /\ output' = r.out
       /\ lastInfer' = r.infer
       /\ escaped' = r.uncaught
       /\ appState' = IF r.uncaught = None THEN "Ready" ELSE "Crashed"
    /\ table' = get_head(data_handler, PreviewRows)
    /\ inputs' = <<open_price, high_price, low_price>>
    /\ clicked' = TRUE
    /\ prior' = Shown(output)
    /\ repeat' = (clicked /\ inputs = <<open_price, high_price, low_price>>)
    /\ UNCHANGED <<dataFile, modelFile, argRequired, data_handler, predictor,
                   required_columns, raised, loads, headCall>>

\* A call of DataHandler.get_head(n) on the loaded handler.
CallGetHead(n) ==
    /\ appState = "Ready"
    /\ headCall' = [n |-> n, result |-> get_head(data_handler, n)]
    /\ UNCHANGED <<dataFile, modelFile, argRequired, appState, data_handler,
                   predictor, required_columns, escaped, raised, loads, table,
                   output, inputs, lastInfer, clicked, prior, repeat>>

Prices == 0..MaxPrice

\* The application: construction, then passes of run().
Next ==
    \/ ConstructDataFails
    \/ ConstructModelFails
    \/ ConstructOk
    \/ \E o, h, l \in Prices : RunRender(o, h, l)
    \/ \E o, h, l \in Prices : RunPredict(o, h, l)

Spec == Init /\ [][Next]_vars

\* The loaders alone: construction, then get_head called with any n.
NextHead ==
    \/ ConstructDataFails
    \/ ConstructModelFails
    \/ ConstructOk
    \/ \E n \in (-MaxN)..MaxN : CallGetHead(n)

SpecHead == Init /\ [][NextHead]_vars

\* ================================================================ claims

\* C1: a Predict press with any of open, high, low <= 0 does not call the
\* model, shows the validation message and leaves the application Ready; every
\* frame that reaches Predictor.predict holds three values > 0.
C1_NoInferenceOnNonPositiveInput ==
    /\ (clicked /\ \E i \in 1..3 : inputs[i] <= 0)
         => /\ lastInfer = None
            /\ appState = "Ready"
            /\ output = <<ErrorMsg("All prices must be positive values.")>>
    /\ lastInfer # None => \A i \in 1..3 : lastInfer.row[i] > 0

C1_Witness ==
    /\ clicked
    /\ inputs[1] = 0 /\ inputs[3] > 0 /\ inputs[2] > inputs[3]
    /\ Shown(output) = "error"
    /\ lastInfer = None

\* C2 (as claimed): whatever makes the construction of the DataHandler or the
\* Predictor fail, the application ends Halted with that error's message on the
\* page; Halted never draws the form nor handles a Predict press.
C2_AnyConstructionFailureHalts ==
    /\ raised # None => (appState = "Halted" /\ output = <<ErrorMsg(raised.msg)>>)
    /\ appState = "Halted" => (table = None /\ inputs = None /\ ~clicked)

\* The rows of a get_head result are the first Min(n, row count) lines of the
\* file, in order, cut down to the required columns.
IsFirstRows(n, result) ==
    LET k == Min(n, dataFile.lines) IN
    /\ Len(result.rows) = k
    /\ result.columns = argRequired
    /\ \A i \in 1..k :
         /\ result.rows[i].index = i - 1
         /\ result.rows[i].cells = [c \in argRequired |-> Cell(i, c)]

\* C3 (as claimed): for every n, get_head(n) returns exactly min(n, row_count)
\* rows, rows 0..min(n, row_count)-1 in order, with exactly the required columns.
C3_HeadForEveryN ==
    headCall # None => IsFirstRows(headCall.n, headCall.result)

\* C3 (amended): the same for every n >= 0.
C3_HeadForNonNegativeN ==
    (headCall # None /\ headCall.n >= 0) => IsFirstRows(headCall.n, headCall.result)

C3_Witness ==
    /\ headCall # None
    /\ headCall.n = 4
    /\ dataFile.lines > 4
    /\ dataFile.columns = AllColumns
    /\ Len(headCall.result.rows) = 4
    /\ headCall.result.rows[4].index = 3

\* C4: DataHandler construction raises FileNotFoundError when the file does not
\* exist (whatever else is wrong), a ValueError when the file exists and lacks a
\* required column, and succeeds only for an existing file with every one.
C4_DataLoaderErrors ==
    appState # "Initializing" =>
        /\ ~dataFile.exists
             => /\ data_handler = None
                /\ raised # None
                /\ raised = Exc("FileNotFoundError", "File not found")
        /\ (dataFile.exists /\ ~(argRequired \subseteq dataFile.columns))
             => /\ data_handler = None
                /\ raised # None
                /\ IsA(raised.type, "ValueError")
        /\ data_handler # None
             => (dataFile.exists /\ argRequired \subseteq dataFile.columns)

C4_Witness ==
    /\ appState = "Halted"
    /\ dataFile.exists
    /\ dataFile.columns = {"Date", "Open", "High"}
    /\ raised # None
    /\ raised.type = "ValueError"

\* C5 (as claimed): Predictor construction raises FileNotFoundError for a
\* missing file and PickleError for every file pickle cannot load; nothing else
\* leaves it, and pickle.load runs at most once.
C5_ModelLoaderErrors ==
    (appState # "Initializing" /\ data_handler # None) =>
        /\ ~modelFile.exists
             => (raised # None /\ raised.type = "FileNotFoundError")
        /\ (modelFile.exists /\ modelFile.content \in BrokenPickles)
             => (raised # None /\ IsA(raised.type, "PickleError"))
        /\ raised # None => raised.type \in {"FileNotFoundError", "PickleError"}
        /\ loads <= 1

\* C6: when a press with three positive inputs reaches the model and the
\* prediction raises, the page shows "Prediction failed: ..." with that error,
\* the application is Ready (not halted, nothing escapes run) and a further
\* press is accepted.
C6_InferenceErrorReturnsToReady ==
    (clicked /\ lastInfer # None /\ ~predict(predictor.model, lastInfer).ok) =>
        /\ appState = "Ready"
        /\ escaped = None
        /\ output = <<Msg("error", "Prediction failed: ",
                          predict(predictor.model, lastInfer).exc)>>
        /\ ENABLED RunPredict(1, 1, 1)

C6_Witness ==
    /\ clicked
    /\ lastInfer # None
    /\ predictor.model = "no_predict"
    /\ Len(output) = 1
    /\ output[1].text = "Prediction failed: "
    /\ appState = "Ready"

\* C7: the output area holds at most one message, that of the latest pass: none
\* when the button was not pressed, exactly one when it was; a result is shown
\* only when that press's prediction succeeded, and it is that prediction.
C7_OutputIsLatestTriggerOnly ==
    /\ Len(output) <= 1
    /\ appState = "Ready" =>
        /\ ~clicked => output = <<>>
        /\ clicked => Len(output) = 1
        /\ \A i \in 1..Len(output) :
             output[i].kind = "write" =>
                /\ clicked
                /\ \A k \in 1..3 : inputs[k] > 0
                /\ lastInfer = InputFrame(inputs[1], inputs[2], inputs[3])
                /\ predict(predictor.model, lastInfer).ok
                /\ predict(predictor.model, lastInfer).val.numeric
                /\ output[i].val = Format2f(predict(predictor.model, lastInfer).val).val
        /\ \A i \in 1..Len(output) :
             output[i].kind = "error" =>
                \/ \E k \in 1..3 : inputs[k] <= 0
                \/ ~predict(predictor.model, lastInfer).ok
                \/ ~predict(predictor.model, lastInfer).val.numeric

C7_Witness ==
    /\ appState = "Ready"
    /\ clicked
    /\ prior = "write"
    /\ output = <<ErrorMsg("All prices must be positive values.")>>

\* C8 (as claimed): the preview table shows the last 4 rows of the dataset
\* (all of them when there are fewer), cut down to the required columns.
C8_PreviewShowsLastRows ==
    table # None =>
        LET len == dataFile.lines
            k == Min(PreviewRows, len)
        IN /\ Len(table.rows) = k
           /\ table.columns = argRequired
           /\ \A j \in 1..k : table.rows[j].index = len - k + j - 1

\* C9: two Predict presses in a row with the same three positive inputs show
\* the same thing both times.
C9_RepeatedPredictSameResult ==
    [][(clicked /\ clicked' /\ inputs' = inputs /\ \A i \in 1..3 : inputs[i] > 0)
         => output' = output]_vars

C9_Witness ==
    /\ repeat
    /\ prior = "write"
    /\ Shown(output) = "write"
    /\ \A i \in 1..3 : inputs[i] > 0

\* C10: once Ready, no step changes the loaded frame, the loaded model, the
\* two paths or the required column set.
C10_LoadedStateUnchanged ==
    [][appState = "Ready" =>
         /\ data_handler' = data_handler
         /\ predictor' = predictor
         /\ required_columns' = required_columns]_vars

C10_Witness ==
    /\ appState = "Ready"
    /\ clicked
    /\ table # None
    /\ dataFile.lines > PreviewRows
    /\ Len(data_handler.df.rows) = dataFile.lines
    /\ data_handler.file_path = DefaultDataPath
    /\ predictor.model_path = DefaultModelPath
    /\ required_columns = argRequired

====
